---------------------------- MODULE Spec2Model ----------------------------
(***************************************************************************)
(* A state-machine model of domUtils.ts (the DOM helper layer of the       *)
(* admin panel front end).  The document is a finite map from element ids  *)
(* to element records; an id outside the map is an element that            *)
(* document.getElementById does not find.  DOM properties (value, checked, *)
(* style) are modelled as the browser keeps them.  An input's value is     *)
(* sanitised by its type: a text input drops line breaks, a file input     *)
(* accepts only the empty string and reads the selected file's name.       *)
(* textContent and innerHTML are two views of the element's children: an   *)
(* assignment to either changes both.  An image's src is a URL property:   *)
(* the field holds what element.src reads, which is the assigned string    *)
(* resolved against the address of the document.                           *)
(* localStorage is a map from keys to strings; setTimeout callbacks are a  *)
(* queue of pending timers with the time each still has to wait.           *)
(***************************************************************************)
EXTENDS Integers, Sequences, FiniteSets, TLC

VARIABLES
    elements,      \* the document: element id -> element record
    bodyOverflow,  \* document.body.style.overflow
    last,          \* the last helper call: [op, id, arg, ret]
    prev,          \* the state the last helper call started from
    restores,      \* the restore closures LoadingUtils has handed out
    localStorage,  \* key -> stored string (keys outside the domain are unset)
    nodes,         \* the notification nodes showNotification has created
    timers,        \* pending setTimeout callbacks, in creation order
    listeners,     \* change listeners handleImagePreview has registered
    readers,       \* FileReaders that are reading a file (onload pending)
    history        \* history: which callbacks have run, which calls were made

vars == <<elements, bodyOverflow, last, prev, restores, localStorage, nodes,
          timers, listeners, readers, history>>

(***************************************************************************)
(* Bounds of the model.                                                    *)
(***************************************************************************)
MaxLoadingCalls == 3
MaxNotifications == 2
MaxAnimCalls == 3
MaxPasswordLen == 3
MaxSupplied == 2
MaxPreviewListeners == 1
MaxReaders == 1

(***************************************************************************)
(* JavaScript values as they are returned to the caller, kept comparable:  *)
(* a pair <<type, text>>.                                                  *)
(***************************************************************************)
JStr(s) == <<"string", s>>
JBool(b) == <<"boolean", IF b THEN "true" ELSE "false">>
JNull == <<"object", "null">>
JUndefined == <<"undefined", "undefined">>
JObject(what) == <<"object", what>>
JThrow(what) == <<"throw", what>>

NoCall == [op |-> "none", id |-> "", arg |-> "", ret |-> JUndefined,
           threw |-> FALSE]

(***************************************************************************)
(* The document.  An element carries every property the helpers touch.     *)
(***************************************************************************)
Element(tag) ==
    [tag |-> tag, type |-> "", value |-> "", files |-> {}, checked |-> FALSE,
     textContent |-> "", src |-> "", classList |-> {}, innerHTML |-> <<>>,
     disabled |-> FALSE, opacity |-> "", transition |-> "", transform |-> ""]

InputIds == {"modalFullName", "modalEmail"}
FormInputIds == InputIds \cup {"modalPosition", "modalPhone", "modalLocation"}
TextareaIds == {"modalAddress"}
CheckboxIds == {"modalTwoFactorAuth"}
TextIds == {"profileName"}
ImageIds == {"modalProfileImage"}
FileInputIds == {"profileImageInput"}
ModalIds == {"editProfileModal", "changePasswordModal", "logoutModal"}
LogoutModalIds == {"logoutModal"}
ButtonIds == {"saveBtn"}
ClassIds == {"sidebar"}
AnimIds == {"alertBox"}
MissingIds == {"noSuchElement"}

StringValues == {"", "Ann"}

\* Strings with a line break, given as the pieces around the break.
BrokenStrings == {<<"An", "n">>}
LineBreak == "\n"

RECURSIVE Join(_, _)
Join(pieces, separator) ==
    IF Len(pieces) = 0 THEN ""
    ELSE IF Len(pieces) = 1 THEN pieces[1]
    ELSE pieces[1] \o separator \o Join(Tail(pieces), separator)

\* The strings the page passes to setInputValue.
InputStrings == StringValues \cup {Join(p, LineBreak) : p \in BrokenStrings}

HasLineBreak(s) == \E p \in BrokenStrings : s = Join(p, LineBreak)

\* The value sanitization of a text input: line breaks are removed.
StripLineBreaks(s) ==
    IF HasLineBreak(s)
    THEN Join(CHOOSE p \in BrokenStrings : s = Join(p, LineBreak), "")
    ELSE s
ClassNames == {"hidden", "active"}
LoadingTexts == {"Loading...", "Saving..."}

\* getElementById (lines 39-41): the element, or null for an unknown id.
HasElement(els, id) == id \in DOMAIN els

(***************************************************************************)
(* Getters: element?.prop || default.                                      *)
(***************************************************************************)
\* What element.value reads: the stored value, or for a file input the
\* name of the first selected file behind a fixed path ('' with no file).
FakePath == "C:\\fakepath\\"

InputValue(el) ==
    IF el.type = "file"
    THEN IF el.files = {} THEN ""
         ELSE FakePath \o (CHOOSE f \in el.files : TRUE)
    ELSE el.value

getInputValue(els, id) ==
    IF HasElement(els, id) /\ InputValue(els[id]) # ""
    THEN InputValue(els[id]) ELSE ""

getTextareaValue(els, id) ==
    IF HasElement(els, id) /\ els[id].value # "" THEN els[id].value ELSE ""

getCheckboxValue(els, id) ==
    IF HasElement(els, id) /\ els[id].checked THEN TRUE ELSE FALSE

getTextContent(els, id) ==
    IF HasElement(els, id) /\ els[id].textContent # ""
    THEN els[id].textContent ELSE ""

getImageSrc(els, id) ==
    IF HasElement(els, id) /\ els[id].src # "" THEN els[id].src ELSE ""

hasClass(els, id, className) ==
    IF HasElement(els, id) /\ className \in els[id].classList
    THEN TRUE ELSE FALSE

(***************************************************************************)
(* Setters: if (element) { element.prop = v; return true } return false.   *)
(* Each yields the new document and the returned boolean.                  *)
(***************************************************************************)
\* element.value = value: a file input empties its selection for '' and
\* throws InvalidStateError for anything else; a text input stores the
\* value without its line breaks.
AssignValue(el, value) ==
    IF el.type = "file"
    THEN [el |-> [el EXCEPT !.files = IF value = "" THEN {} ELSE @],
          threw |-> value # ""]
    ELSE [el |-> [el EXCEPT !.value = StripLineBreaks(value)],
          threw |-> FALSE]

\* Faulty variant: the assignment guarded by the value's truthiness as well.
setInputValueIfTruthy(els, id, value) ==
    IF HasElement(els, id)
    THEN LET a == AssignValue(els[id], value)
         IN  [els |-> IF value # "" THEN [els EXCEPT ![id] = a.el] ELSE els,
              ret |-> ~a.threw, threw |-> a.threw]
    ELSE [els |-> els, ret |-> FALSE, threw |-> FALSE]

setInputValue(els, id, value) ==
    IF HasElement(els, id)
    THEN LET a == AssignValue(els[id], value)
         IN  [els |-> [els EXCEPT ![id] = a.el],
              ret |-> ~a.threw, threw |-> a.threw]
    ELSE [els |-> els, ret |-> FALSE, threw |-> FALSE]

setTextareaValue(els, id, value) ==
    IF HasElement(els, id)
    THEN [els |-> [els EXCEPT ![id].value = value], ret |-> TRUE]
    ELSE [els |-> els, ret |-> FALSE]

setCheckboxValue(els, id, checked) ==
    IF HasElement(els, id)
    THEN [els |-> [els EXCEPT ![id].checked = checked], ret |-> TRUE]
    ELSE [els |-> els, ret |-> FALSE]

\* An element's children as markup: a sequence of tags and texts.  The
\* spinner icon is the one tag the helpers write; it holds no text.
SpinnerIcon == "<i class=\"fas fa-spinner fa-spin mr-2\"></i>"

RECURSIVE TextOf(_)
TextOf(html) ==
    IF html = <<>> THEN ""
    ELSE (IF Head(html) = SpinnerIcon THEN "" ELSE Head(html))
         \o TextOf(Tail(html))

\* element.innerHTML = html: the children are replaced, textContent follows.
AssignInnerHTML(el, html) ==
    [el EXCEPT !.innerHTML = html, !.textContent = TextOf(html)]

\* element.textContent = text: the children become one text (none for '').
AssignTextContent(el, text) ==
    [el EXCEPT !.textContent = text,
               !.innerHTML = IF text = "" THEN <<>> ELSE <<text>>]

setTextContent(els, id, text) ==
    IF HasElement(els, id)
    THEN [els |-> [els EXCEPT ![id] = AssignTextContent(@, text)],
          ret |-> TRUE]
    ELSE [els |-> els, ret |-> FALSE]

\* The address of the document, and the directory relative URLs resolve in.
DocumentBase == "http://validation.local/admin/"
DocumentURL == DocumentBase \o "profile"

\* The URLs that carry a scheme of their own.
AbsoluteURLs == {"data:image/png;base64,AAAA"}

\* What img.src reads after `img.src = url`: the URL resolved against the
\* document; the empty string resolves to the document's own address.
ResolveURL(url) ==
    IF url \in AbsoluteURLs THEN url
    ELSE IF url = "" THEN DocumentURL
    ELSE DocumentBase \o url

setImageSrc(els, id, src) ==
    IF HasElement(els, id)
    THEN [els |-> [els EXCEPT ![id].src = ResolveURL(src)], ret |-> TRUE]
    ELSE [els |-> els, ret |-> FALSE]

addClass(els, id, className) ==
    IF HasElement(els, id)
    THEN [els |-> [els EXCEPT ![id].classList = @ \cup {className}],
          ret |-> TRUE]
    ELSE [els |-> els, ret |-> FALSE]

removeClass(els, id, className) ==
    IF HasElement(els, id)
    THEN [els |-> [els EXCEPT ![id].classList = @ \ {className}],
          ret |-> TRUE]
    ELSE [els |-> els, ret |-> FALSE]

toggleClass(els, id, className) ==
    IF HasElement(els, id)
    THEN [els |-> [els EXCEPT ![id].classList =
                      IF className \in @ THEN @ \ {className}
                      ELSE @ \cup {className}],
          ret |-> TRUE]
    ELSE [els |-> els, ret |-> FALSE]

(***************************************************************************)
(* ModalUtils.show / hide: the new document, body overflow and result.     *)
(***************************************************************************)
\* Faulty variant: the overflow assignment moved out of the null check.
ModalShowUnguarded(els, body, modalId) ==
    IF HasElement(els, modalId)
    THEN [els |-> [els EXCEPT ![modalId].classList = @ \ {"hidden"}],
          body |-> "hidden", ret |-> TRUE]
    ELSE [els |-> els, body |-> "hidden", ret |-> FALSE]

\* Faulty variant: classList.toggle in place of classList.remove.
ModalShowToggle(els, body, modalId) ==
    IF HasElement(els, modalId)
    THEN [els |-> [els EXCEPT ![modalId].classList =
                      IF "hidden" \in @ THEN @ \ {"hidden"}
                      ELSE @ \cup {"hidden"}],
          body |-> "hidden", ret |-> TRUE]
    ELSE [els |-> els, body |-> body, ret |-> FALSE]

ModalShow(els, body, modalId) ==
    IF HasElement(els, modalId)
    THEN [els |-> [els EXCEPT ![modalId].classList = @ \ {"hidden"}],
          body |-> "hidden", ret |-> TRUE]
    ELSE [els |-> els, body |-> body, ret |-> FALSE]

ModalHide(els, body, modalId) ==
    IF HasElement(els, modalId)
    THEN [els |-> [els EXCEPT ![modalId].classList = @ \cup {"hidden"}],
          body |-> "auto", ret |-> TRUE]
    ELSE [els |-> els, body |-> body, ret |-> FALSE]

(***************************************************************************)
(* LoadingUtils: the spinner markup, and the two helpers.  A returned      *)
(* handle is the closure's captured variables; null is the empty sequence  *)
(* of handles.                                                             *)
(***************************************************************************)
SpinnerHTML(loadingText) == <<SpinnerIcon, loadingText>>

setButtonLoading(els, buttonId, loadingText) ==
    IF ~HasElement(els, buttonId)
    THEN [els |-> els, handle |-> <<>>]
    ELSE [els |-> [els EXCEPT ![buttonId] =
                      [AssignInnerHTML(@, SpinnerHTML(loadingText))
                           EXCEPT !.disabled = TRUE]],
          handle |-> <<[kind |-> "button", target |-> buttonId,
                        originalText |-> els[buttonId].innerHTML,
                        wasDisabled |-> els[buttonId].disabled,
                        invoked |-> FALSE]>>]

setElementLoading(els, elementId, loadingText) ==
    IF ~HasElement(els, elementId)
    THEN [els |-> els, handle |-> <<>>]
    ELSE [els |-> [els EXCEPT ![elementId] =
                      AssignInnerHTML(@, SpinnerHTML(loadingText))],
          handle |-> <<[kind |-> "element", target |-> elementId,
                        originalText |-> els[elementId].innerHTML,
                        wasDisabled |-> els[elementId].disabled,
                        invoked |-> FALSE]>>]

\* The restore closure of a handle.
restore(els, h) ==
    IF h.kind = "button"
    THEN [els EXCEPT ![h.target] =
             [AssignInnerHTML(@, h.originalText)
                  EXCEPT !.disabled = h.wasDisabled]]
    ELSE [els EXCEPT ![h.target] = AssignInnerHTML(@, h.originalText)]

(***************************************************************************)
(* localStorage.  Any access may throw (storage disabled, quota exceeded); *)
(* a call that threw has changed nothing.                                  *)
(***************************************************************************)
StorageKeys == {"authToken", "theme"}
RawStrings == {"", "dark", "42"}
EmptyStorage == [k \in {} |-> ""]

getItem(store, key) == IF key \in DOMAIN store THEN JStr(store[key]) ELSE JNull

setItem(store, key, text) ==
    [k \in DOMAIN store \cup {key} |-> IF k = key THEN text ELSE store[k]]

removeItem(store, key) == [k \in DOMAIN store \ {key} |-> store[k]]

\* The values handed to setJSON: a number, a string, null, undefined and an
\* object that refers to itself.
JNumber42 == <<"number", "42">>
JCircular == JObject("circular")
JSONValues == {JNumber42, JStr("dark"), JNull, JUndefined, JCircular}

\* JSON.stringify: the text, undefined for undefined, TypeError for a cycle.
JSONStringify(v) ==
    IF v = JCircular THEN JThrow("TypeError")
    ELSE IF v = JUndefined THEN JUndefined
    ELSE IF v = JNull THEN JStr("null")
    ELSE IF v[1] = "string" THEN JStr("\"" \o v[2] \o "\"")
    ELSE JStr(v[2])

\* JSON.parse on the texts the store can hold: SyntaxError for what is not
\* JSON.
JSONParse(text) ==
    IF text = "null" THEN JNull
    ELSE IF text = "42" THEN JNumber42
    ELSE IF text = "\"dark\"" THEN JStr("dark")
    ELSE JThrow("SyntaxError")

\* setItem's argument converted to a string.
ToDOMString(v) == v[2]

StorageGet(store, key, fails) ==
    IF fails
    THEN [store |-> store, ret |-> JNull, threw |-> TRUE]
    ELSE [store |-> store, ret |-> getItem(store, key), threw |-> FALSE]

StorageSet(store, key, value, fails) ==
    IF fails
    THEN [store |-> store, ret |-> JBool(FALSE), threw |-> TRUE]
    ELSE [store |-> setItem(store, key, value), ret |-> JBool(TRUE),
          threw |-> FALSE]

StorageRemove(store, key, fails) ==
    IF fails
    THEN [store |-> store, ret |-> JBool(FALSE), threw |-> TRUE]
    ELSE [store |-> removeItem(store, key), ret |-> JBool(TRUE),
          threw |-> FALSE]

StorageGetJSON(store, key, fails) ==
    IF fails
    THEN [store |-> store, ret |-> JNull, threw |-> TRUE]
    ELSE LET item == getItem(store, key)
         IN  IF item = JNull \/ item = JStr("")
             THEN [store |-> store, ret |-> JNull, threw |-> FALSE]
             ELSE LET parsed == JSONParse(item[2])
                  IN  IF parsed[1] = "throw"
                      THEN [store |-> store, ret |-> JNull, threw |-> TRUE]
                      ELSE [store |-> store, ret |-> parsed, threw |-> FALSE]

\* Faulty variant: JSON.stringify evaluated before the try block.
StorageSetJSONUncaught(store, key, value, fails) ==
    LET text == JSONStringify(value)
    IN  IF text[1] = "throw"
        THEN [store |-> store, ret |-> text, threw |-> TRUE]
        ELSE IF fails
        THEN [store |-> store, ret |-> JBool(FALSE), threw |-> TRUE]
        ELSE [store |-> setItem(store, key, ToDOMString(text)),
              ret |-> JBool(TRUE), threw |-> FALSE]

StorageSetJSON(store, key, value, fails) ==
    LET text == JSONStringify(value)
    IN  IF text[1] = "throw" \/ fails
        THEN [store |-> store, ret |-> JBool(FALSE), threw |-> TRUE]
        ELSE [store |-> setItem(store, key, ToDOMString(text)),
              ret |-> JBool(TRUE), threw |-> FALSE]

(***************************************************************************)
(* FormUtils.validatePassword.  A password is a sequence of characters.    *)
(***************************************************************************)
Letters == {"a", "Z"}
Digits == {"7"}
PasswordChars == Letters \cup Digits \cup {"_"}
Passwords == UNION {[1..n -> PasswordChars] : n \in 0..MaxPasswordLen}
DefaultMinLength == 8
MinLengths == {1, 3, DefaultMinLength}

LengthMessage(minLength) ==
    "Password minimal " \o ToString(minLength) \o " karakter"
LetterMessage == "Password harus mengandung huruf"
DigitMessage == "Password harus mengandung angka"

\* regex.test: some character of the password is in the class.
Test(class, password) == \E i \in 1..Len(password) : password[i] \in class

\* Faulty variant: the length compared with <= in place of <.
validatePasswordOffByOne(password, minLength) ==
    LET errors ==
            (IF Len(password) <= minLength
             THEN <<LengthMessage(minLength)>> ELSE <<>>)
            \o (IF ~Test(Letters, password) THEN <<LetterMessage>> ELSE <<>>)
            \o (IF ~Test(Digits, password) THEN <<DigitMessage>> ELSE <<>>)
    IN  [isValid |-> Len(errors) = 0, errors |-> errors]

validatePassword(password, minLength) ==
    LET errors ==
            (IF Len(password) < minLength
             THEN <<LengthMessage(minLength)>> ELSE <<>>)
            \o (IF ~Test(Letters, password) THEN <<LetterMessage>> ELSE <<>>)
            \o (IF ~Test(Digits, password) THEN <<DigitMessage>> ELSE <<>>)
    IN  [isValid |-> Len(errors) = 0, errors |-> errors]

(***************************************************************************)
(* setTimeout.  A pending timer is [kind, target, remaining]; the queue is *)
(* in creation order.  The timer that runs next is the first one with no   *)
(* time left to wait.                                                      *)
(***************************************************************************)
Timer(kind, target, delay) ==
    [kind |-> kind, target |-> target, remaining |-> delay]

RemoveAt(seq, i) ==
    [j \in 1..(Len(seq) - 1) |-> IF j < i THEN seq[j] ELSE seq[j + 1]]

MinRemaining(ts) ==
    CHOOSE r \in {ts[i].remaining : i \in 1..Len(ts)} :
        \A i \in 1..Len(ts) : r <= ts[i].remaining

\* The lengths of time (ms) the model lets pass short of the next expiry:
\* a second while notifications are up, a third of the default duration
\* while an element is animated.
NotifySteps == {1000}
AnimSteps == {100}

IsNextDue(ts, i) ==
    /\ i \in 1..Len(ts)
    /\ ts[i].remaining = 0
    /\ \A j \in 1..(i - 1) : ts[j].remaining # 0

(***************************************************************************)
(* showNotification and its two timer callbacks.                           *)
(***************************************************************************)
NotificationTypes == {"success", "error", "warning"}
NotificationMessages == {"Profil tersimpan"}
DefaultDuration == 3000
RemoveDelay == 300
NotificationDurations == {0, DefaultDuration}

colors(type) ==
    IF type = "success" THEN "bg-green-500"
    ELSE IF type = "error" THEN "bg-red-500"
    ELSE "bg-yellow-500"

icons(type) ==
    IF type = "success" THEN "fa-check-circle" ELSE "fa-exclamation-triangle"

showNotification(ns, ts, message, type, duration) ==
    LET notification ==
            [className |-> "fixed top-4 right-4 " \o colors(type) \o
                 " text-white px-6 py-3 rounded-lg shadow-lg z-50 transition-all duration-300",
             innerHTML |-> <<icons(type), message>>,
             attached |-> TRUE, opacity |-> "", transform |-> ""]
    IN  [nodes |-> Append(ns, notification),
         timers |-> Append(ts, Timer("dismiss", Len(ns) + 1, duration))]

\* Faulty variant: the duration callback without its parentNode check.
dismissCallbackUnguarded(ns, ts, n) ==
    [nodes |-> [ns EXCEPT ![n].opacity = "0",
                          ![n].transform = "translateX(100%)"],
     timers |-> Append(ts, Timer("remove", n, RemoveDelay))]

\* The duration callback (lines 233-241), ts being the other pending timers.
dismissCallback(ns, ts, n) ==
    IF ns[n].attached
    THEN [nodes |-> [ns EXCEPT ![n].opacity = "0",
                               ![n].transform = "translateX(100%)"],
          timers |-> Append(ts, Timer("remove", n, RemoveDelay))]
    ELSE [nodes |-> ns, timers |-> ts]

\* The 300 ms callback: notification.parentNode?.removeChild(notification).
removeCallback(ns, n) == [ns EXCEPT ![n].attached = FALSE]

(***************************************************************************)
(* AnimationUtils.                                                         *)
(***************************************************************************)
FadeInDelay == 10
DefaultAnimDuration == 300
AnimDurations == {0, DefaultAnimDuration}

fadeIn(els, ts, elementId, duration) ==
    IF HasElement(els, elementId)
    THEN [els |-> [els EXCEPT
                      ![elementId].opacity = "0",
                      ![elementId].transition =
                          "opacity " \o ToString(duration) \o "ms ease",
                      ![elementId].classList = @ \ {"hidden"}],
          timers |-> Append(ts, Timer("fadeIn", elementId, FadeInDelay))]
    ELSE [els |-> els, timers |-> ts]

fadeOut(els, ts, elementId, duration, hideAfter) ==
    IF HasElement(els, elementId)
    THEN [els |-> [els EXCEPT
                      ![elementId].transition =
                          "opacity " \o ToString(duration) \o "ms ease",
                      ![elementId].opacity = "0"],
          timers |-> IF hideAfter
                     THEN Append(ts, Timer("addHidden", elementId, duration))
                     ELSE ts]
    ELSE [els |-> els, timers |-> ts]

slideUp(els, ts, elementId, duration) ==
    IF HasElement(els, elementId)
    THEN [els |-> [els EXCEPT
                      ![elementId].transition =
                          "transform " \o ToString(duration) \o "ms ease, opacity "
                          \o ToString(duration) \o "ms ease",
                      ![elementId].transform = "translateY(-20px)",
                      ![elementId].opacity = "0"],
          timers |-> Append(ts, Timer("addHidden", elementId, duration))]
    ELSE [els |-> els, timers |-> ts]

\* fadeIn's 10 ms callback.
fadeInCallback(els, elementId) == [els EXCEPT ![elementId].opacity = "1"]

\* fadeOut's and slideUp's callback after duration.
addHiddenCallback(els, elementId) ==
    [els EXCEPT ![elementId].classList = @ \cup {"hidden"}]

NoHistory == [lastCall |-> "none", calls |-> 0, noHide |-> FALSE,
              fired |-> {}, pageRemoved |-> {}]

(***************************************************************************)
(* ProfileFormUtils.  A Partial<ProfileFormData> gives each field as a set: *)
(* empty when the field is absent, else holding its value.                 *)
(***************************************************************************)
StringFields == {"fullName", "position", "email", "phone", "location",
                 "address", "profileImage"}
ProfileFields == StringFields \cup {"twoFactorAuth"}
OptionalString == {{}} \cup {{v} : v \in StringValues}
OptionalBoolean == {{}, {TRUE}, {FALSE}}
Value(opt) == CHOOSE v \in opt : TRUE

\* if (data.field): the field is present and not the empty string.
Truthy(opt) == opt # {} /\ opt # {""}

getFormData(els) ==
    [fullName |-> getInputValue(els, "modalFullName"),
     position |-> getInputValue(els, "modalPosition"),
     email |-> getInputValue(els, "modalEmail"),
     phone |-> getInputValue(els, "modalPhone"),
     location |-> getInputValue(els, "modalLocation"),
     address |-> getTextareaValue(els, "modalAddress"),
     twoFactorAuth |-> getCheckboxValue(els, "modalTwoFactorAuth"),
     profileImage |-> getImageSrc(els, "modalProfileImage")]

setFormData(els, data) ==
    LET e1 == IF Truthy(data.fullName)
              THEN setInputValue(els, "modalFullName", Value(data.fullName)).els
              ELSE els
        e2 == IF Truthy(data.position)
              THEN setInputValue(e1, "modalPosition", Value(data.position)).els
              ELSE e1
        e3 == IF Truthy(data.email)
              THEN setInputValue(e2, "modalEmail", Value(data.email)).els
              ELSE e2
        e4 == IF Truthy(data.phone)
              THEN setInputValue(e3, "modalPhone", Value(data.phone)).els
              ELSE e3
        e5 == IF Truthy(data.location)
              THEN setInputValue(e4, "modalLocation", Value(data.location)).els
              ELSE e4
        e6 == IF Truthy(data.address)
              THEN setTextareaValue(e5, "modalAddress", Value(data.address)).els
              ELSE e5
        e7 == IF data.twoFactorAuth # {}
              THEN setCheckboxValue(e6, "modalTwoFactorAuth",
                                    Value(data.twoFactorAuth)).els
              ELSE e6
    IN  IF Truthy(data.profileImage)
        THEN setImageSrc(e7, "modalProfileImage", Value(data.profileImage)).els
        ELSE e7

\* The data the page passes to setFormData: at most MaxSupplied fields given.
ProfileDataSet ==
    {d \in [fullName : OptionalString, position : OptionalString,
            email : OptionalString, phone : OptionalString,
            location : OptionalString, address : OptionalString,
            twoFactorAuth : OptionalBoolean, profileImage : OptionalString] :
        Cardinality({f \in ProfileFields : d[f] # {}}) <= MaxSupplied}

(***************************************************************************)
(* handleImagePreview: the call registers a change listener on the file    *)
(* input; the listener starts a FileReader on the first selected file; the *)
(* reader's onload shows the result in the preview image.                  *)
(***************************************************************************)
Files == {"avatar.png"}

\* FileReader.readAsDataURL: the data URL onload finds in e.target.result.
DataURL(file) == "data:image/png;base64,AAAA"

handleImagePreview(els, ls, fileInputId, previewImageId, hasCallback) ==
    IF ~HasElement(els, fileInputId) \/ ~HasElement(els, previewImageId)
    THEN ls
    ELSE Append(ls, [fileInput |-> fileInputId,
                     previewImage |-> previewImageId,
                     callback |-> hasCallback])

\* One change listener (lines 257-272) run for an input whose files are
\* `selection` (no file, or one): the readers reading afterwards.
changeListener(rs, listener, selection) ==
    IF selection # {}
    THEN Append(rs, [previewImage |-> listener.previewImage,
                     callback |-> listener.callback,
                     result |-> DataURL(CHOOSE f \in selection : TRUE)])
    ELSE rs

\* The change event: every listener registered on the input runs, in the
\* order of registration.
RECURSIVE dispatchChange(_, _, _, _)
dispatchChange(ls, rs, fileInputId, selection) ==
    IF ls = <<>> THEN rs
    ELSE dispatchChange(Tail(ls),
                        IF Head(ls).fileInput = fileInputId
                        THEN changeListener(rs, Head(ls), selection)
                        ELSE rs,
                        fileInputId, selection)

\* reader.onload (lines 263-269): the new document, and whether the
\* callback was called.
readerOnload(els, reader) ==
    IF reader.result # ""
    THEN [els |-> [els EXCEPT ![reader.previewImage].src =
                                  ResolveURL(reader.result)],
          called |-> reader.callback]
    ELSE [els |-> els, called |-> FALSE]

Snapshot == [elements |-> elements, bodyOverflow |-> bodyOverflow,
             localStorage |-> localStorage, nodes |-> nodes,
             timers |-> timers]

Call(op, id, arg, ret) ==
    [op |-> op, id |-> id, arg |-> arg, ret |-> ret, threw |-> FALSE]

(***************************************************************************)
(* Actions: one per helper.  A getter changes nothing but the call record. *)
(***************************************************************************)
Getter(op, id, ret) ==
    /\ last' = Call(op, id, "", ret)
    /\ prev' = Snapshot
    /\ UNCHANGED <<listeners, readers, elements, bodyOverflow, restores, localStorage, nodes,
                   timers, history>>

Setter(op, id, arg, r) ==
    /\ elements' = r.els
    /\ last' = Call(op, id, arg, JBool(r.ret))
    /\ prev' = Snapshot
    /\ UNCHANGED <<listeners, readers, bodyOverflow, restores, localStorage, nodes, timers,
                   history>>

GetInputValue ==
    \E id \in InputIds \cup FileInputIds \cup MissingIds :
        Getter("getInputValue", id, JStr(getInputValue(elements, id)))

\* setInputValue has no try: what the assignment throws reaches the caller.
SetInputValue ==
    \E id \in InputIds \cup FileInputIds \cup MissingIds, v \in InputStrings :
        LET r == setInputValue(elements, id, v)
        IN  /\ elements' = r.els
            /\ last' = [op |-> "setInputValue", id |-> id, arg |-> v,
                        ret |-> IF r.threw THEN JThrow("InvalidStateError")
                                ELSE JBool(r.ret),
                        threw |-> r.threw]
            /\ prev' = Snapshot
            /\ UNCHANGED <<listeners, readers, bodyOverflow, restores,
                           localStorage, nodes, timers, history>>

GetTextareaValue ==
    \E id \in TextareaIds \cup MissingIds :
        Getter("getTextareaValue", id, JStr(getTextareaValue(elements, id)))

SetTextareaValue ==
    \E id \in TextareaIds \cup MissingIds, v \in StringValues :
        Setter("setTextareaValue", id, v, setTextareaValue(elements, id, v))

GetCheckboxValue ==
    \E id \in CheckboxIds \cup MissingIds :
        Getter("getCheckboxValue", id, JBool(getCheckboxValue(elements, id)))

SetCheckboxValue ==
    \E id \in CheckboxIds \cup MissingIds, c \in BOOLEAN :
        Setter("setCheckboxValue", id, c, setCheckboxValue(elements, id, c))

GetTextContent ==
    \E id \in TextIds \cup MissingIds :
        Getter("getTextContent", id, JStr(getTextContent(elements, id)))

SetTextContent ==
    \E id \in TextIds \cup MissingIds, v \in StringValues :
        Setter("setTextContent", id, v, setTextContent(elements, id, v))

GetImageSrc ==
    \E id \in ImageIds \cup MissingIds :
        Getter("getImageSrc", id, JStr(getImageSrc(elements, id)))

SetImageSrc ==
    \E id \in ImageIds \cup MissingIds, v \in StringValues :
        Setter("setImageSrc", id, v, setImageSrc(elements, id, v))

HasClass ==
    \E id \in ClassIds \cup MissingIds, c \in ClassNames :
        Getter("hasClass", id, JBool(hasClass(elements, id, c)))

AddClass ==
    \E id \in ClassIds \cup MissingIds, c \in ClassNames :
        Setter("addClass", id, c, addClass(elements, id, c))

RemoveClass ==
    \E id \in ClassIds \cup MissingIds, c \in ClassNames :
        Setter("removeClass", id, c, removeClass(elements, id, c))

ToggleClass ==
    \E id \in ClassIds \cup MissingIds, c \in ClassNames :
        Setter("toggleClass", id, c, toggleClass(elements, id, c))

Modal(op, id, r) ==
    /\ elements' = r.els
    /\ bodyOverflow' = r.body
    /\ last' = Call(op, id, "", JBool(r.ret))
    /\ prev' = Snapshot
    /\ UNCHANGED <<listeners, readers, restores, localStorage, nodes, timers, history>>

Show(ids) ==
    \E id \in ids :
        Modal("ModalUtils.show", id, ModalShow(elements, bodyOverflow, id))

Hide(ids) ==
    \E id \in ids :
        Modal("ModalUtils.hide", id, ModalHide(elements, bodyOverflow, id))

Loading(op, id, text, r) ==
    /\ Len(restores) + Len(r.handle) <= MaxLoadingCalls
    /\ elements' = r.els
    /\ restores' = restores \o r.handle
    /\ last' = Call(op, id, text,
                    IF r.handle = <<>> THEN JNull ELSE JObject("restore"))
    /\ prev' = Snapshot
    /\ UNCHANGED <<listeners, readers, bodyOverflow, localStorage, nodes, timers, history>>

SetButtonLoading(ids) ==
    \E id \in ids, text \in LoadingTexts :
        Loading("LoadingUtils.setButtonLoading", id, text,
                setButtonLoading(elements, id, text))

SetElementLoading(ids) ==
    \E id \in ids, text \in LoadingTexts :
        Loading("LoadingUtils.setElementLoading", id, text,
                setElementLoading(elements, id, text))

\* A caller invokes one of the restore callbacks it still holds.
Restore ==
    \E i \in 1..Len(restores) :
        /\ ~restores[i].invoked
        /\ elements' = restore(elements, restores[i])
        /\ restores' = [restores EXCEPT ![i].invoked = TRUE]
        /\ last' = Call("restore", restores[i].target, "", JUndefined)
        /\ prev' = Snapshot
        /\ UNCHANGED <<listeners, readers, bodyOverflow, localStorage, nodes, timers, history>>

(***************************************************************************)
(* StorageUtils: one action per method; whether the storage access throws  *)
(* is the environment's choice.                                            *)
(***************************************************************************)
Storage(op, key, arg, r) ==
    /\ localStorage' = r.store
    /\ last' = [op |-> op, id |-> key, arg |-> arg, ret |-> r.ret,
                threw |-> r.threw]
    /\ prev' = Snapshot
    /\ UNCHANGED <<listeners, readers, elements, bodyOverflow, restores, nodes, timers, history>>

Get ==
    \E key \in StorageKeys, fails \in BOOLEAN :
        Storage("StorageUtils.get", key, "",
                StorageGet(localStorage, key, fails))

Set ==
    \E key \in StorageKeys, value \in RawStrings, fails \in BOOLEAN :
        Storage("StorageUtils.set", key, value,
                StorageSet(localStorage, key, value, fails))

Remove ==
    \E key \in StorageKeys, fails \in BOOLEAN :
        Storage("StorageUtils.remove", key, "",
                StorageRemove(localStorage, key, fails))

GetJSON ==
    \E key \in StorageKeys, fails \in BOOLEAN :
        Storage("StorageUtils.getJSON", key, "",
                StorageGetJSON(localStorage, key, fails))

SetJSON ==
    \E key \in StorageKeys, value \in JSONValues, fails \in BOOLEAN :
        Storage("StorageUtils.setJSON", key, value,
                StorageSetJSON(localStorage, key, value, fails))

ValidatePassword ==
    \E password \in Passwords, minLength \in MinLengths :
        /\ last' = Call("FormUtils.validatePassword", "",
                        [password |-> password, minLength |-> minLength],
                        validatePassword(password, minLength))
        /\ prev' = Snapshot
        /\ UNCHANGED <<listeners, readers, elements, bodyOverflow, restores, localStorage, nodes,
                       timers, history>>

(***************************************************************************)
(* Timers and notifications.                                               *)
(***************************************************************************)
\* Time passes while no timer is due: up to the next expiry, or by a step
\* that ends before it.
Advance(steps) ==
    /\ timers # <<>>
    /\ MinRemaining(timers) > 0
    /\ \E d \in {MinRemaining(timers)} \cup
                 {step \in steps : step < MinRemaining(timers)} :
           timers' = [i \in 1..Len(timers) |->
                         [timers[i] EXCEPT !.remaining = @ - d]]
    /\ last' = Call("advance", "", "", JUndefined)
    /\ prev' = Snapshot
    /\ UNCHANGED <<listeners, readers, elements, bodyOverflow, restores, localStorage, nodes,
                   history>>

ShowNotification ==
    \E message \in NotificationMessages, type \in NotificationTypes,
       duration \in NotificationDurations :
        LET r == showNotification(nodes, timers, message, type, duration)
        IN  /\ Len(nodes) < MaxNotifications
            /\ nodes' = r.nodes
            /\ timers' = r.timers
            /\ last' = Call("showNotification", Len(r.nodes), duration,
                            JUndefined)
            /\ prev' = Snapshot
            /\ UNCHANGED <<listeners, readers, elements, bodyOverflow, restores, localStorage,
                           history>>

\* The timer set with the notification's duration runs.
FireDismiss ==
    \E i \in 1..Len(timers) :
        /\ IsNextDue(timers, i)
        /\ timers[i].kind = "dismiss"
        /\ LET n == timers[i].target
               r == dismissCallback(nodes, RemoveAt(timers, i), n)
           IN  /\ nodes' = r.nodes
               /\ timers' = r.timers
               /\ history' = [history EXCEPT
                                 !.fired = @ \cup {<<"dismiss", n>>}]
               /\ last' = Call("timer:dismiss", n, "", JUndefined)
        /\ prev' = Snapshot
        /\ UNCHANGED <<listeners, readers, elements, bodyOverflow, restores, localStorage>>

\* The 300 ms timer set by the duration callback runs.
FireRemove ==
    \E i \in 1..Len(timers) :
        /\ IsNextDue(timers, i)
        /\ timers[i].kind = "remove"
        /\ LET n == timers[i].target
           IN  /\ nodes' = removeCallback(nodes, n)
               /\ history' = [history EXCEPT
                                 !.fired = @ \cup {<<"remove", n>>}]
               /\ last' = Call("timer:remove", n, "", JUndefined)
        /\ timers' = RemoveAt(timers, i)
        /\ prev' = Snapshot
        /\ UNCHANGED <<listeners, readers, elements, bodyOverflow, restores, localStorage>>

\* Other page code takes an attached notification out of the document (the
\* case the parentNode checks exist for).
PageRemovesNode ==
    \E n \in 1..Len(nodes) :
        /\ nodes[n].attached
        /\ nodes' = [nodes EXCEPT ![n].attached = FALSE]
        /\ history' = [history EXCEPT !.pageRemoved = @ \cup {n}]
        /\ last' = Call("page:remove", n, "", JUndefined)
        /\ prev' = Snapshot
        /\ UNCHANGED <<listeners, readers, elements, bodyOverflow, restores, localStorage, timers>>

(***************************************************************************)
(* AnimationUtils calls and their timers.                                  *)
(***************************************************************************)
Anim(op, id, duration, r, noHide) ==
    /\ HasElement(elements, id) => history.calls < MaxAnimCalls
    /\ elements' = r.els
    /\ timers' = r.timers
    /\ history' = IF HasElement(elements, id)
                  THEN [history EXCEPT !.lastCall = op, !.calls = @ + 1,
                                       !.noHide = @ \/ noHide]
                  ELSE history
    /\ last' = Call(op, id, duration, JUndefined)
    /\ prev' = Snapshot
    /\ UNCHANGED <<listeners, readers, bodyOverflow, restores, localStorage, nodes>>

FadeIn ==
    \E id \in AnimIds \cup MissingIds, duration \in AnimDurations :
        Anim("fadeIn", id, duration,
             fadeIn(elements, timers, id, duration), FALSE)

FadeOut ==
    \E id \in AnimIds \cup MissingIds, duration \in AnimDurations,
       hideAfter \in BOOLEAN :
        Anim("fadeOut", id, duration,
             fadeOut(elements, timers, id, duration, hideAfter), ~hideAfter)

SlideUp ==
    \E id \in AnimIds \cup MissingIds, duration \in AnimDurations :
        Anim("slideUp", id, duration,
             slideUp(elements, timers, id, duration), FALSE)

FireFadeIn ==
    \E i \in 1..Len(timers) :
        /\ IsNextDue(timers, i)
        /\ timers[i].kind = "fadeIn"
        /\ elements' = fadeInCallback(elements, timers[i].target)
        /\ timers' = RemoveAt(timers, i)
        /\ last' = Call("timer:fadeIn", timers[i].target, "", JUndefined)
        /\ prev' = Snapshot
        /\ UNCHANGED <<listeners, readers, bodyOverflow, restores, localStorage, nodes, history>>

FireAddHidden ==
    \E i \in 1..Len(timers) :
        /\ IsNextDue(timers, i)
        /\ timers[i].kind = "addHidden"
        /\ elements' = addHiddenCallback(elements, timers[i].target)
        /\ timers' = RemoveAt(timers, i)
        /\ last' = Call("timer:addHidden", timers[i].target, "", JUndefined)
        /\ prev' = Snapshot
        /\ UNCHANGED <<listeners, readers, bodyOverflow, restores, localStorage, nodes, history>>

(***************************************************************************)
(* ProfileFormUtils calls.                                                 *)
(***************************************************************************)
SetFormData ==
    \E data \in ProfileDataSet :
        /\ elements' = setFormData(elements, data)
        /\ last' = Call("ProfileFormUtils.setFormData", "", data, JUndefined)
        /\ prev' = Snapshot
        /\ UNCHANGED <<listeners, readers, bodyOverflow, restores, localStorage, nodes, timers,
                       history>>

GetFormData ==
    Getter("ProfileFormUtils.getFormData", "", getFormData(elements))

(***************************************************************************)
(* handleImagePreview, the change event and the reader's onload.           *)
(***************************************************************************)
HandleImagePreview ==
    \E fileInputId \in FileInputIds \cup MissingIds,
       previewImageId \in ImageIds \cup MissingIds, hasCallback \in BOOLEAN :
        LET ls == handleImagePreview(elements, listeners, fileInputId,
                                     previewImageId, hasCallback)
        IN  /\ Len(ls) <= MaxPreviewListeners
            /\ listeners' = ls
            /\ last' = Call("handleImagePreview", fileInputId, previewImageId,
                            JUndefined)
            /\ prev' = Snapshot
            /\ UNCHANGED <<elements, bodyOverflow, restores, localStorage,
                           nodes, timers, readers, history>>

\* The user picks a file (or clears the selection) in a file input: the
\* input holds the selection, then its change listeners run.
ChangeEvent ==
    \E fileInputId \in FileInputIds,
       selection \in {{}} \cup {{f} : f \in Files} :
        LET rs == dispatchChange(listeners, readers, fileInputId, selection)
        IN  /\ Len(rs) <= MaxReaders
            /\ elements' = [elements EXCEPT ![fileInputId].files = selection]
            /\ readers' = rs
            /\ last' = Call("event:change", fileInputId,
                            IF selection = {} THEN ""
                            ELSE CHOOSE f \in selection : TRUE, JUndefined)
            /\ prev' = Snapshot
            /\ UNCHANGED <<bodyOverflow, restores, localStorage,
                           nodes, timers, listeners, history>>

\* A reader finishes its file; readers finish in any order.
ReaderOnload ==
    \E i \in 1..Len(readers) :
        LET r == readerOnload(elements, readers[i])
        IN  /\ elements' = r.els
            /\ readers' = RemoveAt(readers, i)
            /\ last' = Call("reader.onload", readers[i].previewImage,
                            readers[i].result, JBool(r.called))
            /\ prev' = Snapshot
            /\ UNCHANGED <<bodyOverflow, restores, localStorage, nodes,
                           timers, listeners, history>>

(***************************************************************************)
(* The page: the profile form, its modals, a label and a button.           *)
(***************************************************************************)
PageElements ==
    [id \in FormInputIds \cup FileInputIds \cup TextareaIds \cup CheckboxIds \cup TextIds
            \cup ImageIds \cup ModalIds \cup ButtonIds \cup ClassIds \cup AnimIds |->
        IF id \in FormInputIds THEN [Element("input") EXCEPT !.type = "text"]
        ELSE IF id \in FileInputIds
             THEN [Element("input") EXCEPT !.type = "file"]
        ELSE IF id \in TextareaIds THEN Element("textarea")
        ELSE IF id \in CheckboxIds
             THEN [Element("input") EXCEPT !.type = "checkbox"]
        ELSE IF id \in TextIds THEN Element("span")
        ELSE IF id \in ImageIds THEN Element("img")
        ELSE IF id \in ModalIds
             THEN [Element("div") EXCEPT !.classList = {"hidden"}]
        ELSE IF id \in ClassIds THEN Element("aside")
        ELSE IF id \in AnimIds
             THEN [Element("div") EXCEPT !.classList = {"hidden"}]
        ELSE AssignInnerHTML(Element("button"), <<"Simpan">>)]

InitPage ==
    /\ elements = PageElements
    /\ bodyOverflow = "auto"
    /\ last = NoCall
    /\ prev = [elements |-> PageElements, bodyOverflow |-> "auto",
               localStorage |-> EmptyStorage, nodes |-> <<>>,
               timers |-> <<>>]
    /\ restores = <<>>
    /\ localStorage = EmptyStorage
    /\ nodes = <<>>
    /\ timers = <<>>
    /\ listeners = <<>>
    /\ readers = <<>>
    /\ history = NoHistory

Init == InitPage

Next ==
    \/ GetInputValue \/ SetInputValue
    \/ GetTextareaValue \/ SetTextareaValue
    \/ GetCheckboxValue \/ SetCheckboxValue
    \/ GetTextContent \/ SetTextContent
    \/ GetImageSrc \/ SetImageSrc
    \/ HasClass \/ AddClass \/ RemoveClass \/ ToggleClass
    \/ Show(LogoutModalIds \cup MissingIds)
    \/ Hide(LogoutModalIds \cup MissingIds)
    \/ SetButtonLoading(MissingIds) \/ SetElementLoading(MissingIds)

Spec == Init /\ [][Next]_vars

(***************************************************************************)
(* The inputs and the image preview: the input, textarea and image        *)
(* helpers interleaved with handleImagePreview, the change events of the   *)
(* file input and the readers' onload callbacks.                           *)
(***************************************************************************)
NextForm ==
    \/ GetInputValue \/ SetInputValue
    \/ GetTextareaValue \/ SetTextareaValue
    \/ GetImageSrc \/ SetImageSrc
    \/ HandleImagePreview \/ ChangeEvent \/ ReaderOnload

SpecForm == Init /\ [][NextForm]_vars

(***************************************************************************)
(* The modals alone: any sequence of ModalUtils.show / hide calls, from    *)
(* every modal hidden and the page scrollable.                             *)
(***************************************************************************)
NextModal == Show(ModalIds \cup MissingIds) \/ Hide(ModalIds \cup MissingIds)

SpecModal == InitPage /\ [][NextModal]_vars

(***************************************************************************)
(* The loading helpers on the page's button and label, and the restore     *)
(* callbacks they returned, invoked in any order.                          *)
(***************************************************************************)
NextLoading ==
    \/ SetButtonLoading(ButtonIds \cup MissingIds)
    \/ SetElementLoading(TextIds \cup MissingIds)
    \/ Restore

SpecLoading == InitPage /\ [][NextLoading]_vars

NextStorage == Get \/ Set \/ Remove \/ GetJSON \/ SetJSON

SpecStorage == InitPage /\ [][NextStorage]_vars

SpecPassword == InitPage /\ [][ValidatePassword]_vars

NextNotify ==
    \/ ShowNotification \/ Advance(NotifySteps) \/ FireDismiss \/ FireRemove
    \/ PageRemovesNode

SpecNotify == InitPage /\ [][NextNotify]_vars

NextAnim ==
    \/ FadeIn \/ FadeOut \/ SlideUp \/ Advance(AnimSteps)
    \/ FireFadeIn \/ FireAddHidden

SpecAnim == InitPage /\ [][NextAnim]_vars

NextProfile == SetFormData \/ GetFormData

SpecProfile == InitPage /\ [][NextProfile]_vars

(***************************************************************************)
(* Properties.                                                             *)
(***************************************************************************)
StringGetters == {"getInputValue", "getTextareaValue", "getTextContent",
                  "getImageSrc"}
LoadingHelpers == {"LoadingUtils.setButtonLoading",
                   "LoadingUtils.setElementLoading"}
IdHelpers == StringGetters \cup LoadingHelpers \cup
    {"getCheckboxValue", "hasClass", "setInputValue", "setTextareaValue",
     "setCheckboxValue", "setTextContent", "setImageSrc", "addClass",
     "removeClass", "toggleClass", "ModalUtils.show", "ModalUtils.hide"}

DefaultReturn(op) ==
    IF op \in StringGetters THEN JStr("")
    ELSE IF op \in LoadingHelpers THEN JNull
    ELSE JBool(FALSE)

\* C1: an id-based helper called with an id no element has returns its
\* default ('' or false for getters, false for setters and ModalUtils,
\* null for LoadingUtils), throws nothing, and leaves every element and the
\* body overflow as they were.
C1_MissingElementDefault ==
    (last.op \in IdHelpers /\ ~HasElement(prev.elements, last.id)) =>
        /\ last.ret = DefaultReturn(last.op)
        /\ last.ret[1] # "throw"
        /\ elements = prev.elements
        /\ bodyOverflow = prev.bodyOverflow

C1_Witness ==
    /\ last.op = "LoadingUtils.setButtonLoading"
    /\ last.id \in MissingIds
    /\ last.ret = JNull
    /\ bodyOverflow = "hidden"
    /\ elements["modalFullName"].value = "Ann"
    /\ "active" \in elements["sidebar"].classList

C5_ModalNoGuards ==
    /\ (last.op = "ModalUtils.show" /\ HasElement(prev.elements, last.id)) =>
           /\ last.ret = JBool(TRUE)
           /\ "hidden" \notin elements[last.id].classList
           /\ bodyOverflow = "hidden"
    /\ (last.op = "ModalUtils.hide" /\ HasElement(prev.elements, last.id)) =>
           /\ last.ret = JBool(TRUE)
           /\ "hidden" \in elements[last.id].classList
           /\ bodyOverflow = "auto"
    /\ \A m \in ModalIds :
           LET s1 == ModalShow(elements, bodyOverflow, m)
               s2 == ModalShow(s1.els, s1.body, m)
               h1 == ModalHide(elements, bodyOverflow, m)
               h2 == ModalHide(h1.els, h1.body, m)
           IN  s2 = s1 /\ h2 = h1

C5_Witness ==
    /\ last.op = "ModalUtils.show"
    /\ HasElement(prev.elements, last.id)
    /\ "hidden" \notin prev.elements[last.id].classList
    /\ prev.bodyOverflow = "auto"

StorageReaders == {"StorageUtils.get", "StorageUtils.getJSON"}
StorageWriters == {"StorageUtils.set", "StorageUtils.remove",
                   "StorageUtils.setJSON"}

\* C2: a StorageUtils call in which the storage access, JSON.parse or
\* JSON.stringify threw never throws to its caller: get and getJSON return
\* null, set, remove and setJSON return false, and the stored contents are
\* those from before the call; set, remove and setJSON return true when
\* nothing threw.
C2_StorageNeverThrows ==
    (last.op \in StorageReaders \cup StorageWriters) =>
        /\ last.ret[1] # "throw"
        /\ (last.threw /\ last.op \in StorageReaders) => last.ret = JNull
        /\ (last.threw /\ last.op \in StorageWriters) => last.ret = JBool(FALSE)
        /\ last.threw => localStorage = prev.localStorage
        /\ (~last.threw /\ last.op \in StorageWriters) => last.ret = JBool(TRUE)

C2_Witness ==
    /\ last.op = "StorageUtils.setJSON"
    /\ last.arg = JCircular
    /\ last.threw
    /\ last.ret = JBool(FALSE)
    /\ last.id \in DOMAIN localStorage
    /\ localStorage[last.id] = "\"dark\""

\* C6: validatePassword's errors are, in this order and at most once each,
\* the length message iff the password is shorter than minLength, the letter
\* message iff it has no A-Z/a-z character, and the digit message iff it has
\* no 0-9 character; isValid iff there are no errors.
C6_PasswordChecks ==
    (last.op = "FormUtils.validatePassword") =>
        LET pw == last.arg.password
            tooShort == Len(pw) < last.arg.minLength
            noLetter == \A i \in 1..Len(pw) : pw[i] \notin Letters
            noDigit == \A i \in 1..Len(pw) : pw[i] \notin Digits
            all == <<LengthMessage(last.arg.minLength), LetterMessage,
                     DigitMessage>>
            due == <<tooShort, noLetter, noDigit>>
            kept == {i \in 1..3 : due[i]}
            errors == last.ret.errors
        IN  /\ Len(errors) = Cardinality(kept)
            /\ \A i \in kept :
                   errors[Cardinality({j \in kept : j <= i})] = all[i]
            /\ last.ret.isValid <=> (errors = <<>>)

C6_Witness ==
    /\ last.op = "FormUtils.validatePassword"
    /\ last.arg.password = <<"a", "_", "Z">>
    /\ last.arg.minLength = 3
    /\ last.ret.errors = <<DigitMessage>>
    /\ ~last.ret.isValid

\* C4: a notification is attached when showNotification returns, the helper
\* does not detach it before its duration timer has run, it is out of the
\* document once the duration timer and the 300 ms timer after it have both
\* run, for any number of overlapping notifications, and a duration timer
\* that finds its node already detached changes nothing.
C4_NotificationLifecycle ==
    /\ (last.op = "showNotification") =>
           /\ Len(nodes) = Len(prev.nodes) + 1
           /\ nodes[Len(nodes)].attached
           /\ \A n \in 1..Len(prev.nodes) : nodes[n] = prev.nodes[n]
    /\ \A n \in 1..Len(nodes) :
           /\ (~nodes[n].attached /\ <<"dismiss", n>> \notin history.fired)
                  => n \in history.pageRemoved
           /\ ({<<"dismiss", n>>, <<"remove", n>>} \subseteq history.fired)
                  => ~nodes[n].attached
    /\ (last.op = "timer:dismiss" /\ ~prev.nodes[last.id].attached) =>
           /\ nodes = prev.nodes
           /\ \E i \in 1..Len(prev.timers) :
                  /\ prev.timers[i] = Timer("dismiss", last.id, 0)
                  /\ timers = RemoveAt(prev.timers, i)
           /\ elements = prev.elements
           /\ bodyOverflow = prev.bodyOverflow

\* Two overlapping notifications: one ran both of its timers and was taken
\* out by the helper, the other was detached by the page before its duration
\* timer ran.
C4_Witness ==
    /\ Len(nodes) = 2
    /\ \E n \in 1..2 :
           /\ {<<"dismiss", n>>, <<"remove", n>>} \subseteq history.fired
           /\ ~nodes[n].attached
           /\ n \notin history.pageRemoved
           /\ last.op = "timer:dismiss"
           /\ last.id = 3 - n
           /\ ~prev.nodes[3 - n].attached

\* C9: once every timer has run, the element shows the most recent of the
\* fadeIn / fadeOut (hideAfter true) / slideUp calls made on it: no 'hidden'
\* class and opacity '1' after fadeIn, the 'hidden' class and opacity '0'
\* after fadeOut or slideUp.
C9_LastAnimationWins ==
    \A id \in AnimIds :
        (timers = <<>> /\ ~history.noHide) =>
            /\ (history.lastCall = "fadeIn") =>
                   /\ "hidden" \notin elements[id].classList
                   /\ elements[id].opacity = "1"
            /\ (history.lastCall \in {"fadeOut", "slideUp"}) =>
                   /\ "hidden" \in elements[id].classList
                   /\ elements[id].opacity = "0"

\* C7: while a restore returned by setButtonLoading is outstanding the
\* button is disabled and shows the spinner, and once every returned restore
\* has been invoked the button's innerHTML and disabled flag are what they
\* were before the first call, whatever the order of the restores.
C7_RestoreAnyOrder ==
    \A b \in ButtonIds :
        LET mine == {i \in 1..Len(restores) :
                        restores[i].kind = "button" /\ restores[i].target = b}
        IN  /\ (\E i \in mine : ~restores[i].invoked) =>
                   /\ elements[b].disabled
                   /\ \E text \in LoadingTexts :
                          elements[b].innerHTML = SpinnerHTML(text)
            /\ (mine # {} /\ \A i \in mine : restores[i].invoked) =>
                   /\ elements[b].innerHTML = PageElements[b].innerHTML
                   /\ elements[b].disabled = PageElements[b].disabled

\* C8: from all modals hidden and body overflow 'auto', after any sequence
\* of show / hide calls the body overflow is 'hidden' exactly when some
\* modal lacks the 'hidden' class.
C8_ScrollLockIffShown ==
    (bodyOverflow = "hidden") <=>
        (\E m \in ModalIds : "hidden" \notin elements[m].classList)

\* C10: with every profile form element present, getFormData() right after
\* setFormData(data) returns every field data supplies (an empty string and
\* twoFactorAuth false included) with exactly the supplied value, and every
\* field data leaves out with the value it had before.
C10_FormDataRoundTrip ==
    (last.op = "ProfileFormUtils.setFormData") =>
        \A f \in ProfileFields :
            /\ (last.arg[f] # {}) =>
                   getFormData(elements)[f] = Value(last.arg[f])
            /\ (last.arg[f] = {}) =>
                   getFormData(elements)[f] = getFormData(prev.elements)[f]

=============================================================================
